---- MODULE Spec2Model ----
(***************************************************************************)
(* A model of the set-associative LRU cache simulator of src/code.py:      *)
(* class Cache (constructor, check, extract_index, extract_tag,            *)
(* extract_offset, lru_handling, evictor), class Block, and the address    *)
(* supply hextobin of the driving loops.                                   *)
(*                                                                         *)
(* Bit strings (Python str of '0'/'1') are sequences over {0, 1}; a        *)
(* hexadecimal token is a sequence of digit values 0..15.  Python lists    *)
(* are sequences, so Python's cache[j][i] is cache[j + 1][i + 1] here.     *)
(***************************************************************************)
EXTENDS Integers, Sequences, FiniteSets, TLC

\* ------------------------------------------------------------------ bounds
MaxCacheSize == 5       \* cache_size ranges over 1 .. MaxCacheSize
MaxBlockSize == 2       \* block_size ranges over 1 .. MaxBlockSize
MaxAssoc == 2           \* associativity ranges over 1 .. MaxAssoc
MaxHexDigit == 3        \* one-digit trace tokens 0x0 .. 0xMaxHexDigit
MaxCalls == 5           \* calls of check on one instance
MaxLines == 3           \* lines of a trace file in a run of a sweep
MaxRuns == 2            \* runs of a sweep

\* The address width baked into the tag width (src/code.py:31) and into the
\* zero fill of hextobin (src/code.py:193).
ADDRESS_WIDTH == 32

VARIABLES
  pc,                 \* "unconstructed", "constructed", "init_raised" or
                      \* "check_raised" (no caller catches: the run ends there);
                      \* in a sweep also "reported" and "report_raised"
  cache_size,         \* self.cache_size
  block_size,         \* self.block_size
  associativity,      \* self.associativity
  sets,               \* self.sets
  no_of_ind_bits,     \* self.no_of_ind_bits
  no_of_offset_bits,  \* self.no_of_offset_bits
  no_of_tag_bits,     \* self.no_of_tag_bits
  hit_count,          \* self.hit_count
  miss_count,         \* self.miss_count
  cache,              \* self.cache: a list of sets, each a list of Blocks
  trace,              \* history: the calls of check so far, each with the
                      \* index and tag it computed and with its outcome
  runs                \* the runs of a sweep that have reported their counts

vars == <<pc, cache_size, block_size, associativity, sets, no_of_ind_bits,
          no_of_offset_bits, no_of_tag_bits, hit_count, miss_count, cache, trace,
          runs>>

config == <<cache_size, block_size, associativity, sets, no_of_ind_bits,
            no_of_offset_bits, no_of_tag_bits>>

\* ------------------------------------------------------- Python primitives
Min(S) == CHOOSE x \in S : \A y \in S : x <= y

\* '0' * n
Zeros(n) == [i \in 1 .. n |-> 0]

\* s[start:stop] for a str s: negative indices count from the end, and both
\* ends are clamped to the string.
PyNorm(i, n) == IF i < 0 THEN (IF i + n < 0 THEN 0 ELSE i + n)
                         ELSE (IF i > n THEN n ELSE i)

PySlice(s, start, stop) == SubSeq(s, PyNorm(start, Len(s)) + 1, PyNorm(stop, Len(s)))

\* int(log2(n)) for n >= 1; log2(0) raises ValueError (math domain error).
RECURSIVE IntLog2(_)
IntLog2(n) == IF n <= 1 THEN 0 ELSE 1 + IntLog2(n \div 2)

\* int(bits, 2) for a non-empty bit string; int('', 2) raises ValueError.
RECURSIVE IntBase2(_)
IntBase2(bits) == IF Len(bits) = 0 THEN 0
                  ELSE 2 * IntBase2(SubSeq(bits, 1, Len(bits) - 1)) + bits[Len(bits)]

IntBase2Raises(bits) == Len(bits) = 0

\* int(address, base=16) for a non-empty hexadecimal token.
RECURSIVE IntBase16(_)
IntBase16(hex) == IF Len(hex) = 0 THEN 0
                  ELSE 16 * IntBase16(SubSeq(hex, 1, Len(hex) - 1)) + hex[Len(hex)]

\* str(bin(n))[2:] for n >= 0
RECURSIVE Bin(_)
Bin(n) == IF n < 2 THEN <<n>> ELSE Append(Bin(n \div 2), n % 2)

\* s.zfill(width) for a string of digits
ZFill(s, width) == IF Len(s) >= width THEN s ELSE Zeros(width - Len(s)) \o s

\* ---------------------------------------------------------------- hextobin
hextobin(address) == ZFill(Bin(IntBase16(address)), ADDRESS_WIDTH)

\* The trace tokens fed to the cache: the one-digit tokens, and 0x40000000,
\* whose bit 30 lies in the tag field of every configuration.
HexTokens == { <<d>> : d \in 0 .. MaxHexDigit } \cup { <<4, 0, 0, 0, 0, 0, 0, 0>> }

Addresses == { hextobin(h) : h \in HexTokens }

\* ------------------------------------------------------------------- Block
\* Block.__init__(tag, valid, lru_counter = -1)
Block(tag, valid) ==
  [tag |-> tag, valid |-> valid, data |-> Zeros(ADDRESS_WIDTH), lru_counter |-> -1]

\* ------------------------------------------------------------------- Cache
Init ==
  /\ pc = "unconstructed"
  /\ cache_size = 0
  /\ block_size = 0
  /\ associativity = 0
  /\ sets = 0
  /\ no_of_ind_bits = 0
  /\ no_of_offset_bits = 0
  /\ no_of_tag_bits = 0
  /\ hit_count = 0
  /\ miss_count = 0
  /\ cache = <<>>
  /\ trace = <<>>
  /\ runs = 0

\* Cache.__init__: no check of the arguments; the only failure is log2(0),
\* raised when cache_size // (block_size * associativity) is 0.
Cache_init(cs, bs, assoc) ==
  /\ pc = "unconstructed"
  /\ cache_size' = cs
  /\ block_size' = bs
  /\ associativity' = assoc
  /\ sets' = cs \div (bs * assoc)
  /\ UNCHANGED <<trace, runs>>
  /\ IF cs \div (bs * assoc) = 0
       THEN /\ pc' = "init_raised"
            /\ UNCHANGED <<no_of_ind_bits, no_of_offset_bits, no_of_tag_bits,
                           hit_count, miss_count, cache>>
       ELSE /\ pc' = "constructed"
            /\ no_of_ind_bits' = IntLog2(cs \div (bs * assoc))
            /\ no_of_offset_bits' = IntLog2(bs)
            /\ no_of_tag_bits' = ADDRESS_WIDTH - IntLog2(cs \div (bs * assoc)) - IntLog2(bs)
            /\ hit_count' = 0
            /\ miss_count' = 0
            /\ cache' = [j \in 1 .. (cs \div (bs * assoc)) |->
                           [i \in 1 .. assoc |->
                              Block(Zeros(ADDRESS_WIDTH - IntLog2(cs \div (bs * assoc))
                                            - IntLog2(bs)), FALSE)]]

\* ------------------------------------------------------ address extraction
index_bits(address) ==
  PySlice(address, no_of_tag_bits, no_of_tag_bits + no_of_ind_bits)

extract_index(address) == IntBase2(index_bits(address))

extract_tag(address) == PySlice(address, 0, no_of_tag_bits)

offset_bits(address) == PySlice(address, -no_of_offset_bits, Len(address))

extract_offset(address) == IntBase2(offset_bits(address))

\* ------------------------------------------------------------ LRU handling
\* Mutant of lru_handling: a miss ages the blocks of every set, not only
\* those of the set accessed.
lru_handling_AgesEverySet(c, set_index, hit, cur) ==
  LET blocks == c[set_index + 1]
      counter(i) == blocks[i].lru_counter
      after(i) == IF counter(i) > cur THEN counter(i) - 1
                  ELSE IF counter(i) = cur THEN associativity - 1
                  ELSE counter(i)
  IN  IF hit
        THEN [c EXCEPT ![set_index + 1] =
                [i \in DOMAIN blocks |-> [blocks[i] EXCEPT !.lru_counter = after(i)]]]
        ELSE [j \in DOMAIN c |->
                [i \in DOMAIN c[j] |-> [c[j][i] EXCEPT !.lru_counter = @ - 1]]]

\* Mutant of lru_handling: a hit leaves the counters as they are, so that
\* the order of insertion, not of use, decides the victim.
lru_handling_NoPromotion(c, set_index, hit, cur) ==
  LET blocks == c[set_index + 1]
  IN  [c EXCEPT ![set_index + 1] =
         [i \in DOMAIN blocks |->
            [blocks[i] EXCEPT !.lru_counter = IF hit THEN @ ELSE @ - 1]]]

\* lru_handling(set_index, hit, cur): the cache after the loop over
\* self.cache[set_index]; each block is read and written once, by its own
\* iteration.
\* Mutant of lru_handling: the hit branch compares with >= and so ages the
\* block that was hit with the others.
lru_handling_HitAgesHitBlock(c, set_index, hit, cur) ==
  LET blocks == c[set_index + 1]
      counter(i) == blocks[i].lru_counter
      after(i) == IF hit
                    THEN IF counter(i) >= cur THEN counter(i) - 1
                         ELSE IF counter(i) = cur THEN associativity - 1
                         ELSE counter(i)
                    ELSE counter(i) - 1
  IN  [c EXCEPT ![set_index + 1] =
         [i \in DOMAIN blocks |-> [blocks[i] EXCEPT !.lru_counter = after(i)]]]

\* Mutant of lru_handling: a hit ages every other block of the set, whatever
\* its counter.
lru_handling_HitAgesAllOthers(c, set_index, hit, cur) ==
  LET blocks == c[set_index + 1]
      counter(i) == blocks[i].lru_counter
      after(i) == IF hit
                    THEN IF counter(i) = cur THEN associativity - 1
                         ELSE counter(i) - 1
                    ELSE counter(i) - 1
  IN  [c EXCEPT ![set_index + 1] =
         [i \in DOMAIN blocks |-> [blocks[i] EXCEPT !.lru_counter = after(i)]]]

lru_handling(c, set_index, hit, cur) ==
  LET blocks == c[set_index + 1]
      counter(i) == blocks[i].lru_counter
      after(i) == IF hit
                    THEN IF counter(i) > cur THEN counter(i) - 1
                         ELSE IF counter(i) = cur THEN associativity - 1
                         ELSE counter(i)
                    ELSE counter(i) - 1
  IN  [c EXCEPT ![set_index + 1] =
         [i \in DOMAIN blocks |-> [blocks[i] EXCEPT !.lru_counter = after(i)]]]

\* Mutant of evictor: the first pass has lost its "not", and takes the first
\* valid block.
evictor_FirstPassTakesValid(c, set_index, tag, offset) ==
  LET blocks == c[set_index + 1]
      valid == { i \in DOMAIN blocks : blocks[i].valid }
      zero == { i \in DOMAIN blocks : blocks[i].lru_counter = 0 }
      place(i) == [c EXCEPT ![set_index + 1][i] =
                     [@ EXCEPT !.tag = tag, !.valid = TRUE,
                               !.lru_counter = associativity]]
  IN  IF valid # {} THEN place(Min(valid))
      ELSE IF zero # {} THEN place(Min(zero))
      ELSE c

\* Mutant of evictor: the second pass looks for the highest counter, and so
\* evicts the most recently used block.
evictor_EvictsNewest(c, set_index, tag, offset) ==
  LET blocks == c[set_index + 1]
      invalid == { i \in DOMAIN blocks : ~blocks[i].valid }
      top == { i \in DOMAIN blocks : blocks[i].lru_counter = associativity - 1 }
      place(i) == [c EXCEPT ![set_index + 1][i] =
                     [@ EXCEPT !.tag = tag, !.valid = TRUE,
                               !.lru_counter = associativity]]
  IN  IF invalid # {} THEN place(Min(invalid))
      ELSE IF top # {} THEN place(Min(top))
      ELSE c

\* Mutant of evictor: the first pass takes the last invalid block of the set.
evictor_FillsLastInvalid(c, set_index, tag, offset) ==
  LET blocks == c[set_index + 1]
      invalid == { i \in DOMAIN blocks : ~blocks[i].valid }
      zero == { i \in DOMAIN blocks : blocks[i].lru_counter = 0 }
      last == CHOOSE i \in invalid : \A j \in invalid : j <= i
      place(i) == [c EXCEPT ![set_index + 1][i] =
                     [@ EXCEPT !.tag = tag, !.valid = TRUE,
                               !.lru_counter = associativity]]
  IN  IF invalid # {} THEN place(last)
      ELSE IF zero # {} THEN place(Min(zero))
      ELSE c

\* evictor(set_index, tag, offset): the first invalid block, else the first
\* block whose counter is 0, receives the tag; else nothing is written.
evictor(c, set_index, tag, offset) ==
  LET blocks == c[set_index + 1]
      invalid == { i \in DOMAIN blocks : ~blocks[i].valid }
      zero == { i \in DOMAIN blocks : blocks[i].lru_counter = 0 }
      place(i) == [c EXCEPT ![set_index + 1][i] =
                     [@ EXCEPT !.tag = tag, !.valid = TRUE,
                               !.lru_counter = associativity]]
  IN  IF invalid # {} THEN place(Min(invalid))
      ELSE IF zero # {} THEN place(Min(zero))
      ELSE c

\* ------------------------------------------------------------------- check
\* Mutant of Matching: the loop gives up after the first block of the set.
Matching_OnlyFirstBlock(blocks, tag) ==
  { i \in DOMAIN blocks : i = 1 /\ blocks[i].valid /\ blocks[i].tag = tag }

\* Mutant of Matching: the valid flag is not tested.
Matching_IgnoresValid(blocks, tag) ==
  { i \in DOMAIN blocks : blocks[i].tag = tag }

\* The blocks of a set that the loop of check matches.
Matching(blocks, tag) ==
  { i \in DOMAIN blocks : blocks[i].tag = tag /\ blocks[i].valid }

\* The exception check raises before it touches any state, or "none".
check_raises(address) ==
  IF IntBase2Raises(index_bits(address)) THEN "ValueError"
  ELSE IF IntBase2Raises(offset_bits(address)) THEN "ValueError"
  ELSE IF extract_index(address) >= Len(cache) THEN "IndexError"
  ELSE "none"

\* Mutant of check_hit: the hit is counted, the counters of the set are not
\* updated.
check_hit_NoLruUpdate(index, i) ==
  /\ hit_count' = hit_count + 1
  /\ UNCHANGED <<cache, miss_count>>

\* Mutant of check_hit: the hit is not counted.
check_hit_NotCounted(index, i) ==
  /\ cache' = lru_handling(cache, index, TRUE, cache[index + 1][i].lru_counter)
  /\ UNCHANGED <<hit_count, miss_count>>

\* The hit branch: the first matching block i of the set.
check_hit(index, i) ==
  /\ hit_count' = hit_count + 1
  /\ cache' = lru_handling(cache, index, TRUE, cache[index + 1][i].lru_counter)
  /\ UNCHANGED miss_count

\* Mutant of check_miss: the miss is added to hit_count.
check_miss_CountsAsHit(index, tag, offset) ==
  /\ hit_count' = hit_count + 1
  /\ cache' = lru_handling(evictor(cache, index, tag, offset), index, FALSE, "None")
  /\ UNCHANGED miss_count

\* Mutant of check_miss: the set is aged before the insertion.
check_miss_AgesFirst(index, tag, offset) ==
  /\ miss_count' = miss_count + 1
  /\ cache' = evictor(lru_handling(cache, index, FALSE, "None"), index, tag, offset)
  /\ UNCHANGED hit_count

\* Mutant of check_miss: the set is not aged after the insertion.
check_miss_NoAgeing(index, tag, offset) ==
  /\ miss_count' = miss_count + 1
  /\ cache' = evictor(cache, index, tag, offset)
  /\ UNCHANGED hit_count

\* The miss branch.
check_miss(index, tag, offset) ==
  /\ miss_count' = miss_count + 1
  /\ cache' = lru_handling(evictor(cache, index, tag, offset), index, FALSE, "None")
  /\ UNCHANGED hit_count

\* One call of check, as the history keeps it.
Call(address, index, tag, result) ==
  [address |-> address, index |-> index, tag |-> tag, result |-> result]

check(address) ==
  /\ pc = "constructed"
  /\ Len(trace) < MaxCalls
  /\ UNCHANGED <<config, runs>>
  /\ pc' = IF check_raises(address) # "none" THEN "check_raised" ELSE pc
  /\ IF check_raises(address) # "none"
       THEN /\ UNCHANGED <<hit_count, miss_count, cache>>
            /\ trace' = Append(trace, Call(address, -1, <<>>, check_raises(address)))
       ELSE LET index == extract_index(address)
                tag == extract_tag(address)
                offset == extract_offset(address)
                found == Matching(cache[index + 1], tag)
            IN  IF found # {}
                  THEN /\ check_hit(index, Min(found))
                       /\ trace' = Append(trace, Call(address, index, tag, "hit"))
                  ELSE /\ check_miss(index, tag, offset)
                       /\ trace' = Append(trace, Call(address, index, tag, "miss"))

Construct ==
  \E cs \in 1 .. MaxCacheSize, bs \in 1 .. MaxBlockSize, assoc \in 1 .. MaxAssoc :
    Cache_init(cs, bs, assoc)

Access == \E address \in Addresses : check(address)

Next == Construct \/ Access

Spec == Init /\ [][Next]_vars

\* ------------------------------------------------------------------ sweeps
\* The loops of parta, partb, partc and partd: for every trace file and
\* every configuration of the part, cache1 = Cache(...), then check on every
\* line of the file, then the counts of cache1 are read for the report.

\* Mutant of sweep_next: the cache is constructed once, before the loops, and
\* the next run goes on with it.
sweep_next_KeepsCache ==
  /\ pc = "reported"
  /\ runs < MaxRuns
  /\ pc' = "constructed"
  /\ trace' = <<>>
  /\ UNCHANGED <<config, hit_count, miss_count, cache, runs>>

\* The head of the loop body after a run: the constructor is called next;
\* until it returns, cache1 is still bound to the instance of the last run.
sweep_next ==
  /\ pc = "reported"
  /\ runs < MaxRuns
  /\ pc' = "unconstructed"
  /\ trace' = <<>>
  /\ UNCHANGED <<config, hit_count, miss_count, cache, runs>>

\* One line of the trace file.
sweep_feed ==
  \E address \in Addresses :
    /\ Len(trace) < MaxLines
    /\ check(address)

\* After the last line: the rates divide by hit_count + miss_count, which
\* raises ZeroDivisionError for a file without lines.
sweep_report ==
  /\ pc = "constructed"
  /\ IF hit_count + miss_count = 0
       THEN /\ pc' = "report_raised"
            /\ UNCHANGED runs
       ELSE /\ pc' = "reported"
            /\ runs' = runs + 1
  /\ UNCHANGED <<config, hit_count, miss_count, cache, trace>>

NextSweep == Construct \/ sweep_feed \/ sweep_report \/ sweep_next

SpecSweep == Init /\ [][NextSweep]_vars

\* ----------------------------------------------------- reading the history
Max(S) == CHOOSE x \in S : \A y \in S : x >= y

\* The k-th call of the history tr returned (it did not raise).
Returned(tr, k) == tr[k].result \in {"hit", "miss"}

\* The k-th call of tr is an access to set s.
IsAccessTo(tr, k, s) == Returned(tr, k) /\ tr[k].index = s

\* The accesses of tr that went to set s, as positions of tr.
AccessesTo(tr, s) == { k \in DOMAIN tr : IsAccessTo(tr, k, s) }

\* The tags accessed in set s, in the order of access.
RECURSIVE SetHistory(_, _, _)
SetHistory(tr, n, s) ==
  IF n = 0 THEN <<>>
  ELSE IF IsAccessTo(tr, n, s)
         THEN Append(SetHistory(tr, n - 1, s), tr[n].tag)
         ELSE SetHistory(tr, n - 1, s)

History(s) == SetHistory(trace, Len(trace), s)

SetIndexes == 0 .. Len(cache) - 1

ValidBlocks(blocks) == { i \in DOMAIN blocks : blocks[i].valid }

\* The tags resident in set s of the cache c.
Resident(c, s) == { c[s + 1][i].tag : i \in ValidBlocks(c[s + 1]) }

\* The step is a call of check that returned.
Accessed == /\ pc = "constructed"
            /\ pc' = "constructed"
            /\ Len(trace') = Len(trace) + 1

AccessedSet == trace'[Len(trace')].index
AccessedTag == trace'[Len(trace')].tag
Missed == Accessed /\ trace'[Len(trace')].result = "miss"

\* The configurations that the constructor's contract admits: cache_size,
\* block_size and cache_size / (block_size * associativity) are exact powers
\* of two, and associativity is at most cache_size / block_size.
IsPowerOfTwo(n) == \E e \in 0 .. n : 2 ^ e = n

ValidConfiguration(cs, bs, assoc) ==
  /\ IsPowerOfTwo(cs)
  /\ IsPowerOfTwo(bs)
  /\ assoc * bs <= cs
  /\ cs % (bs * assoc) = 0
  /\ IsPowerOfTwo(cs \div (bs * assoc))

Valid == ValidConfiguration(cache_size, block_size, associativity)

\* ---------------------------------------------------------------------- C1
\* C1: after every call of check that returned, hit_count + miss_count is the
\* number of calls made on the instance (a call that raises does not return,
\* and ends the run).
C1_CountsSumToCalls ==
  pc = "constructed" => hit_count + miss_count = Len(trace)

C1_Witness ==
  /\ pc = "constructed"
  /\ Len(trace) = MaxCalls
  /\ hit_count >= 2
  /\ miss_count >= 2

\* ---------------------------------------------------------------------- C2
\* The position in tr of the most recent access (hit or insertion) of tag t
\* in set s.
LastUse(tr, s, t) ==
  Max({ k \in AccessesTo(tr, s) : tr[k].tag = t })

\* The resident tag of set s whose most recent access is the oldest.
OldestResident(tr, c, s) ==
  CHOOSE t \in Resident(c, s) :
    \A u \in Resident(c, s) : LastUse(tr, s, t) <= LastUse(tr, s, u)

C2_VictimIsOldest ==
  (Missed /\ ValidBlocks(cache[AccessedSet + 1]) = DOMAIN cache[AccessedSet + 1]) =>
    \E i \in DOMAIN cache[AccessedSet + 1] :
      /\ cache[AccessedSet + 1][i].tag = OldestResident(trace, cache, AccessedSet)
      /\ cache'[AccessedSet + 1][i].tag = AccessedTag
      /\ cache'[AccessedSet + 1][i].valid
      /\ \A j \in DOMAIN cache[AccessedSet + 1] \ {i} :
           /\ cache'[AccessedSet + 1][j].tag = cache[AccessedSet + 1][j].tag
           /\ cache'[AccessedSet + 1][j].valid

\* With associativity 2, the accesses X, Y, X, Z to one set leave X and Z.
C2_XYXZ ==
  \A s \in SetIndexes :
    LET h == History(s)
    IN  (/\ pc = "constructed"
         /\ associativity = 2
         /\ Len(h) = 4
         /\ h[1] = h[3]
         /\ Cardinality({h[1], h[2], h[4]}) = 3)
        => Resident(cache, s) = {h[1], h[4]}

\* C2: whenever check misses on a set whose blocks are all valid, the tag it
\* overwrites is the resident tag of that set whose most recent access is the
\* oldest, and no other block of the set loses its tag; with associativity 2
\* the accesses X, Y, X, Z to one set evict Y and keep X.
C2_TrueLRU == [][C2_VictimIsOldest]_vars /\ []C2_XYXZ

C2_Witness ==
  \E s \in SetIndexes :
    LET h == History(s)
    IN  /\ pc = "constructed"
        /\ associativity = 2
        /\ Len(h) = 4
        /\ h[1] = h[3]
        /\ Cardinality({h[1], h[2], h[4]}) = 3
        /\ trace[Len(trace)].result = "miss"
        /\ trace[Len(trace)].index = s
        /\ Resident(cache, s) = {h[1], h[4]}
\* ---------------------------------------------------------------------- C3
Range(f) == { f[i] : i \in DOMAIN f }

Without(list, t) == SelectSeq(list, LAMBDA u : u # t)

\* The reference cache keeps, for each set, the list of its resident tags
\* with the most recently used first: a hit moves the tag to the front, a
\* miss puts the tag in front and drops the tail of a full list.
RefAccess(list, t) ==
  IF t \in Range(list) THEN <<t>> \o Without(list, t)
  ELSE IF Len(list) >= associativity
         THEN <<t>> \o SubSeq(list, 1, associativity - 1)
         ELSE <<t>> \o list

\* The reference's list of set s after the first n calls of tr.
RECURSIVE RefList(_, _, _)
RefList(tr, n, s) ==
  IF n = 0 THEN <<>>
  ELSE IF IsAccessTo(tr, n, s)
         THEN RefAccess(RefList(tr, n - 1, s), tr[n].tag)
         ELSE RefList(tr, n - 1, s)

\* The reference's answer to the n-th call of tr.
RefResult(tr, n) ==
  IF tr[n].tag
       \in Range(RefList(tr, n - 1, extract_index(tr[n].address)))
    THEN "hit" ELSE "miss"

\* C3: fed the accesses of the same history, the cache and the reference
\* cache with a move-to-front list per set answer every access alike, and
\* after every access each set holds the same resident tags in both.  (The
\* history only grows, so the answer to the latest access is compared in the
\* state that follows it.)
C3_RankLRUEqualsMoveToFront ==
  pc = "constructed" =>
    /\ trace # <<>> => trace[Len(trace)].result = RefResult(trace, Len(trace))
    /\ \A s \in SetIndexes :
         Resident(cache, s) = Range(RefList(trace, Len(trace), s))

\* The reference has evicted from a set of two or more blocks, after a hit
\* that reordered the set.
C3_Witness ==
  \E s \in SetIndexes :
    /\ pc = "constructed"
    /\ associativity >= 2
    /\ Cardinality(Range(History(s))) > associativity
    /\ \E k \in AccessesTo(trace, s) :
         /\ trace[k].result = "hit"
         /\ k > associativity
         /\ RefList(trace, k - 1, s)[1] # trace[k].tag
         /\ \E m \in AccessesTo(trace, s) : m > k /\ trace[m].result = "miss"
    /\ Resident(cache, s) = Range(RefList(trace, Len(trace), s))
\* ---------------------------------------------------------------------- C4
\* The k-th call of tr repeats the address of an earlier call j, and no call
\* between them went to the same set with a different tag.
RepeatsUndisturbed(tr, k) ==
  \E j \in 1 .. k - 1 :
    /\ tr[j].address = tr[k].address
    /\ \A m \in j + 1 .. k - 1 :
         ~(tr[m].index = tr[j].index /\ tr[m].tag # tr[j].tag)

\* C4: the first check of an address on a fresh cache is a miss, and every
\* later check of an address already accessed, with no access to a different
\* tag of its set in between, is a hit.
C4_ColdMissThenHit ==
  Valid =>
    \A k \in DOMAIN trace :
      /\ k = 1 => trace[k].result = "miss"
      /\ RepeatsUndisturbed(trace, k) => trace[k].result = "hit"

\* The part of C4 that the code keeps: among the calls that returned, a
\* repeat of an undisturbed address is a hit and the first call is a miss.
C4_HoldsWhereCheckReturns ==
  \A k \in DOMAIN trace :
    Returned(trace, k) =>
      /\ k = 1 => trace[k].result = "miss"
      /\ RepeatsUndisturbed(trace, k) => trace[k].result = "hit"

\* ---------------------------------------------------------------------- C5
\* The distinct tags that set s has received in the history tr.
TagsSeen(tr, s) == { tr[k].tag : k \in AccessesTo(tr, s) }

C5_NoEvictionBelowCapacity ==
  (Accessed /\ Cardinality(TagsSeen(trace, AccessedSet)) < associativity) =>
    LET s == AccessedSet
        before == cache[s + 1]
        after == cache'[s + 1]
    IN  /\ AccessedTag \in TagsSeen(trace, s) => trace'[Len(trace')].result = "hit"
        /\ Missed =>
             \E i \in DOMAIN before :
               /\ ~before[i].valid
               /\ after[i].valid
               /\ after[i].tag = AccessedTag
               /\ \A j \in DOMAIN before \ {i} :
                    /\ after[j].tag = before[j].tag
                    /\ after[j].valid = before[j].valid
        /\ Resident(cache', s) = TagsSeen(trace, s) \cup {AccessedTag}

\* C5: in a set that has received fewer than associativity distinct tags, a
\* miss writes the new tag into a block that was invalid and overwrites no
\* valid block, every tag the set has received stays resident, and a
\* re-access of such a tag is a hit.
C5_CapacityNotYetFull == [][C5_NoEvictionBelowCapacity]_vars

\* A set of two or more blocks took a second tag into an invalid block, and
\* a re-access of its first tag then hit.
C5_Witness ==
  \E s \in SetIndexes :
    LET h == History(s)
    IN  /\ pc = "constructed"
        /\ associativity >= 2
        /\ Len(h) = 3
        /\ h[1] # h[2]
        /\ h[3] = h[1]
        /\ trace[Len(trace)].index = s
        /\ trace[Len(trace)].result = "hit"
        /\ Resident(cache, s) = {h[1], h[2]}

\* ---------------------------------------------------------------------- C6
\* C6: with associativity A >= 2, after the accesses t1 .. tA (distinct), t1
\* and a new tag to one set, the set holds t1, t3 .. tA and the new tag; the
\* next access of the set misses if it is to t2 and hits if it is to one of
\* t1, t3 .. tA.
C6_FullSequenceLRU ==
  \A s \in SetIndexes :
    LET h == History(s)
        A == associativity
        first == { h[i] : i \in 1 .. A }
    IN  (/\ pc = "constructed"
         /\ A >= 2
         /\ Len(h) >= A + 2
         /\ Cardinality(first) = A
         /\ h[A + 1] = h[1]
         /\ h[A + 2] \notin first)
        => /\ Len(h) = A + 2 =>
                Resident(cache, s) = (first \ {h[2]}) \cup {h[A + 2]}
           /\ Len(h) = A + 3 =>
                LET probe == trace[Max(AccessesTo(trace, s))].result
                IN  /\ h[A + 3] = h[2] => probe = "miss"
                    /\ h[A + 3] \in first \ {h[2]} => probe = "hit"

\* The whole sequence on a set of two blocks: X, Y, X, Z, and then Y misses.
C6_Witness ==
  \E s \in SetIndexes :
    LET h == History(s)
    IN  /\ pc = "constructed"
        /\ associativity = 2
        /\ Len(h) = 5
        /\ h[1] # h[2]
        /\ h[3] = h[1]
        /\ h[4] \notin {h[1], h[2]}
        /\ h[5] = h[2]
        /\ trace[Max(AccessesTo(trace, s))].result = "miss"
\* ---------------------------------------------------------------------- C7
\* C7: no Cache exists in a configuration outside the contract: construction
\* fails there, and so no access is ever made.
C7_InvalidConfigurationRejected ==
  pc \in {"constructed", "check_raised"} => Valid

\* ---------------------------------------------------------------------- C8
\* C8: in a valid configuration no call of check raises; every call returns
\* hit or miss.
C8_CheckIsTotal ==
  (pc # "unconstructed" /\ Valid) =>
    /\ pc = "constructed"
    /\ \A k \in DOMAIN trace : Returned(trace, k)

\* ---------------------------------------------------------------------- C9
\* The fields of an address as the three extractors read them.
FieldsOf(address) ==
  [tag |-> extract_tag(address),
   index |-> index_bits(address),
   offset |-> offset_bits(address)]

\* The value of a bit field; the empty field has the value 0.
RECURSIVE FieldValue(_)
FieldValue(bits) ==
  IF bits = <<>> THEN 0
  ELSE 2 * FieldValue(SubSeq(bits, 1, Len(bits) - 1)) + bits[Len(bits)]

\* C9: in a valid configuration the three widths add up to 32, and for every
\* address the tag, index and offset that the extractors read have these
\* widths and, put end to end, are the address; extract_index and
\* extract_offset return the values of their fields.
C9_AddressDecomposition ==
  (pc = "constructed" /\ Valid) =>
    /\ no_of_tag_bits + no_of_ind_bits + no_of_offset_bits = ADDRESS_WIDTH
    /\ \A address \in Addresses :
         LET f == FieldsOf(address)
         IN  /\ Len(f.tag) = no_of_tag_bits
             /\ Len(f.index) = no_of_ind_bits
             /\ Len(f.offset) = no_of_offset_bits
             /\ f.tag \o f.index \o f.offset = address
             /\ ~IntBase2Raises(f.index)
             /\ ~IntBase2Raises(f.offset)
             /\ extract_index(address) = FieldValue(f.index)
             /\ extract_offset(address) = FieldValue(f.offset)

\* The part of C9 that the code keeps: with one or more index bits and one
\* or more offset bits, in every configuration the constructor accepts.
C9_HoldsForNonEmptyFields ==
  (pc = "constructed" /\ no_of_ind_bits >= 1 /\ no_of_offset_bits >= 1) =>
    /\ no_of_tag_bits + no_of_ind_bits + no_of_offset_bits = ADDRESS_WIDTH
    /\ \A address \in Addresses :
         LET f == FieldsOf(address)
         IN  /\ Len(f.tag) = no_of_tag_bits
             /\ Len(f.index) = no_of_ind_bits
             /\ Len(f.offset) = no_of_offset_bits
             /\ f.tag \o f.index \o f.offset = address
             /\ extract_index(address) = FieldValue(f.index)
             /\ extract_offset(address) = FieldValue(f.offset)

\* --------------------------------------------------------------------- C10
\* The step is a call of check, whether it returns or raises.
Called == pc = "constructed" /\ Len(trace') = Len(trace) + 1

C10_OnlyOneSetAndOneCounter ==
  Called =>
    /\ config' = config
    /\ Len(cache') = Len(cache)
    /\ hit_count' = hit_count \/ miss_count' = miss_count
    /\ IF Accessed
         THEN /\ \A s \in SetIndexes \ {AccessedSet} : cache'[s + 1] = cache[s + 1]
              /\ \/ hit_count' = hit_count + 1 /\ miss_count' = miss_count
                 \/ miss_count' = miss_count + 1 /\ hit_count' = hit_count
         ELSE cache' = cache /\ hit_count' = hit_count /\ miss_count' = miss_count

\* C10: a call of check changes blocks of the one set that the index bits of
\* the address select, and one of the two counters, by one; the blocks of
\* every other set, the other counter and the configuration stay as they
\* are.  (A call that raises changes nothing.)
C10_FrameOfOneAccess == [][C10_OnlyOneSetAndOneCounter]_vars

\* A miss in one set of a cache whose other set holds valid blocks.
C10_Witness ==
  /\ pc = "constructed"
  /\ Len(cache) >= 2
  /\ Len(trace) >= 3
  /\ trace[Len(trace)].result = "miss"
  /\ \E s \in SetIndexes \ {trace[Len(trace)].index} :
       ValidBlocks(cache[s + 1]) # {}
  /\ hit_count >= 1
\* --------------------------------------------------------------------- C11
Hit == Accessed /\ trace'[Len(trace')].result = "hit"

C11_CountersStep ==
  /\ (pc = "unconstructed" /\ pc' = "constructed") =>
       (hit_count' = 0 /\ miss_count' = 0)
  /\ hit_count' >= hit_count
  /\ miss_count' >= miss_count
  /\ Called =>
       /\ hit_count' = IF Hit THEN hit_count + 1 ELSE hit_count
       /\ miss_count' = IF Missed THEN miss_count + 1 ELSE miss_count

\* C11: both counters are 0 when the constructor returns and never decrease;
\* a call of check adds exactly 1 to hit_count if and only if it returns True
\* and exactly 1 to miss_count if and only if it returns False.
C11_Counters == [][C11_CountersStep]_vars

C11_Witness ==
  /\ pc = "constructed"
  /\ hit_count >= 2
  /\ miss_count >= 2
  /\ trace[Len(trace)].result = "miss"
  /\ trace[Len(trace) - 1].result = "hit"

\* --------------------------------------------------------------------- C12
\* The all-zero tag that the constructor gives to every block.
NeutralTag == Zeros(no_of_tag_bits)

C12_HitIffResident ==
  Accessed => (Hit <=> AccessedTag \in Resident(cache, AccessedSet))

C12_FirstAccessMisses ==
  \A k \in DOMAIN trace :
    (/\ Returned(trace, k)
     /\ \A j \in 1 .. k - 1 :
          ~(trace[j].index = trace[k].index /\ trace[j].tag = trace[k].tag))
    => trace[k].result = "miss"

\* C12: check returns True if and only if, when it is called, a valid block
\* of the set of the address holds the tag of the address; the first access
\* to a (set, tag) pair on a fresh cache is a miss, also for the all-zero tag
\* that the invalid blocks hold.
C12_HitMissClassification == [][C12_HitIffResident]_vars /\ []C12_FirstAccessMisses

\* The first access carried the all-zero tag and missed; the second access
\* to the same set and tag hit.
C12_Witness ==
  /\ pc = "constructed"
  /\ Len(trace) >= 2
  /\ trace[1].tag = NeutralTag
  /\ trace[1].result = "miss"
  /\ trace[2].tag = NeutralTag
  /\ trace[2].index = trace[1].index
  /\ trace[2].result = "hit"

\* --------------------------------------------------------------------- C13
\* The blocks of set s whose tag or valid flag differ between c and d.
Rewritten(c, d, s) ==
  { i \in DOMAIN c[s + 1] :
      c[s + 1][i].tag # d[s + 1][i].tag \/ c[s + 1][i].valid # d[s + 1][i].valid }

C13_MissWritesOneBlock ==
  /\ Missed =>
       LET s == AccessedSet
           before == cache[s + 1]
           invalid == { i \in DOMAIN before : ~before[i].valid }
       IN  \E i \in DOMAIN before :
             /\ Rewritten(cache, cache', s) = {i}
             /\ cache'[s + 1][i].tag = AccessedTag
             /\ cache'[s + 1][i].valid
             /\ IF invalid # {} THEN i \in invalid
                                ELSE before[i].lru_counter = 0
  /\ Accessed => AccessedTag \in Resident(cache', AccessedSet)

\* C13: on every miss the new tag is written into exactly one block, an
\* invalid one if the set has one and otherwise one whose counter is 0 (the
\* case of no block written does not occur), so that after every call of
\* check that returns, the tag accessed is resident in its set.
C13_EvictionFindsCandidate == [][C13_MissWritesOneBlock]_vars

\* A miss on a full set followed another miss on the full set: the second
\* pass of evictor found a counter 0 both times.
C13_Witness ==
  \E s \in SetIndexes :
    /\ pc = "constructed"
    /\ Cardinality(TagsSeen(trace, s)) >= associativity + 2
    /\ trace[Len(trace)].index = s
    /\ trace[Len(trace)].result = "miss"
    /\ trace[Len(trace)].tag \in Resident(cache, s)
\* --------------------------------------------------------------------- C14
\* The counters of the valid blocks of a set.
ValidRanks(blocks) == { blocks[i].lru_counter : i \in ValidBlocks(blocks) }

\* C14: between accesses, in every set with k valid blocks the counters of
\* the valid blocks are pairwise distinct and are exactly the values
\* associativity - k .. associativity - 1; in a full set they are a
\* permutation of 0 .. associativity - 1.
C14_RankContiguity ==
  pc \in {"constructed", "check_raised"} =>
    \A s \in SetIndexes :
      LET blocks == cache[s + 1]
          k == Cardinality(ValidBlocks(blocks))
      IN  /\ k \in 0 .. associativity
          /\ \A i, j \in ValidBlocks(blocks) :
               blocks[i].lru_counter = blocks[j].lru_counter => i = j
          /\ ValidRanks(blocks) = (associativity - k) .. (associativity - 1)

\* A full set of more than one block, after a hit that followed an eviction.
C14_Witness ==
  \E s \in SetIndexes :
    /\ pc = "constructed"
    /\ associativity >= 2
    /\ Cardinality(ValidBlocks(cache[s + 1])) = associativity
    /\ Cardinality(TagsSeen(trace, s)) > associativity
    /\ trace[Len(trace)].index = s
    /\ trace[Len(trace)].result = "hit"
    /\ \E i \in ValidBlocks(cache[s + 1]) :
         /\ cache[s + 1][i].tag = trace[Len(trace)].tag
         /\ i # Len(cache[s + 1])

\* --------------------------------------------------------------------- C15
\* The claim as it is stated: every block, valid or invalid.
C15_RankRange ==
  pc = "constructed" =>
    \A s \in SetIndexes : \A i \in DOMAIN cache[s + 1] :
      cache[s + 1][i].lru_counter \in 0 .. associativity

\* C15 (amended): between accesses the counter of every valid block is an
\* integer in [0, associativity]; the counter of an invalid block is
\* negative, -1 from the constructor and one less for every miss of its set.
C15_ValidRankRange ==
  pc = "constructed" =>
    \A s \in SetIndexes : \A i \in DOMAIN cache[s + 1] :
      IF cache[s + 1][i].valid
        THEN cache[s + 1][i].lru_counter \in 0 .. associativity
        ELSE cache[s + 1][i].lru_counter =
               -1 - Cardinality({ k \in AccessesTo(trace, s) : trace[k].result = "miss" })

\* A valid block whose counter has come down to 0, and an invalid block that
\* has aged below the -1 of the constructor.
C15_Witness ==
  \E s, t \in SetIndexes : \E i \in DOMAIN cache[s + 1], j \in DOMAIN cache[t + 1] :
    /\ pc = "constructed"
    /\ associativity >= 2
    /\ cache[s + 1][i].valid
    /\ cache[s + 1][i].lru_counter = 0
    /\ ~cache[t + 1][j].valid
    /\ cache[t + 1][j].lru_counter < -1
\* --------------------------------------------------------------------- C16
\* The blocks of set s that hold the tag of the access, before the call.
HitBlocks(s) ==
  { i \in ValidBlocks(cache[s + 1]) : cache[s + 1][i].tag = AccessedTag }

C16_HitStep ==
  Hit =>
    LET s == AccessedSet
        before == cache[s + 1]
        after == cache'[s + 1]
    IN  /\ HitBlocks(s) # {}
        /\ \A h \in HitBlocks(s) :
             LET cur == before[h].lru_counter
             IN  /\ after[h].lru_counter = associativity - 1
                 /\ \A j \in DOMAIN before \ {h} :
                      /\ after[j].lru_counter # associativity - 1
                      /\ before[j].lru_counter > cur =>
                           after[j].lru_counter = before[j].lru_counter - 1
                      /\ before[j].lru_counter < cur =>
                           after[j].lru_counter = before[j].lru_counter
        /\ \A j \in DOMAIN before :
             /\ after[j].tag = before[j].tag
             /\ after[j].valid = before[j].valid

\* C16: a hit on a block whose counter is cur leaves that block, and no other
\* block of the set, with counter associativity - 1; every other block of the
\* set whose counter was above cur has it reduced by exactly 1; every block
\* whose counter was below cur, the invalid ones included, keeps it; no tag
\* and no valid flag changes.
C16_HitPathUpdate == [][C16_HitStep]_vars

\* The hit was on a block of a full set of more than one block that was not
\* the most recently used one: the access before it was to another tag of
\* the set.
C16_Witness ==
  \E s \in SetIndexes :
    /\ pc = "constructed"
    /\ associativity >= 2
    /\ Len(trace) >= 3
    /\ trace[Len(trace)].index = s
    /\ trace[Len(trace)].result = "hit"
    /\ trace[Len(trace) - 1].index = s
    /\ trace[Len(trace) - 1].tag # trace[Len(trace)].tag
    /\ Cardinality(ValidBlocks(cache[s + 1])) = associativity

\* --------------------------------------------------------------------- C17
C17_MissStep ==
  Missed =>
    LET s == AccessedSet
        before == cache[s + 1]
        after == cache'[s + 1]
    IN  \E i \in DOMAIN before :
          /\ Rewritten(cache, cache', s) = {i}
          /\ after[i].tag = AccessedTag
          /\ after[i].lru_counter = associativity - 1
          /\ \A j \in DOMAIN before \ {i} :
               after[j].lru_counter = before[j].lru_counter - 1

\* C17: on a miss the insertion runs first and the ageing second: when check
\* returns, the block that received the new tag has counter
\* associativity - 1 and every other block of the set, valid or invalid, has
\* a counter exactly 1 lower than before the call.
C17_MissPathUpdate == [][C17_MissStep]_vars

\* A miss that evicted from a full set of more than one block.
C17_Witness ==
  \E s \in SetIndexes :
    /\ pc = "constructed"
    /\ associativity >= 2
    /\ trace # <<>>
    /\ trace[Len(trace)].index = s
    /\ trace[Len(trace)].result = "miss"
    /\ Cardinality(TagsSeen(trace, s)) > associativity
    /\ \E i \in DOMAIN cache[s + 1] :
         /\ cache[s + 1][i].tag = trace[Len(trace)].tag
         /\ cache[s + 1][i].lru_counter = associativity - 1
    /\ \E j \in DOMAIN cache[s + 1] : cache[s + 1][j].lru_counter = 0

\* --------------------------------------------------------------------- C18
\* C18: no two valid blocks of a set hold the same tag, so a hit matches
\* exactly one block.
C18_NoDuplicateResidency ==
  \A s \in SetIndexes :
    \A i, j \in ValidBlocks(cache[s + 1]) :
      cache[s + 1][i].tag = cache[s + 1][j].tag => i = j

\* A full set of more than one block in which a resident tag was accessed
\* again after an eviction.
C18_Witness ==
  \E s \in SetIndexes :
    /\ pc = "constructed"
    /\ associativity >= 2
    /\ Cardinality(ValidBlocks(cache[s + 1])) = associativity
    /\ Cardinality(TagsSeen(trace, s)) > associativity
    /\ trace[Len(trace)].index = s
    /\ trace[Len(trace)].result = "hit"
    /\ cache[s + 1][associativity].tag = trace[Len(trace)].tag

\* --------------------------------------------------------------------- C19
C19_ValidityStep ==
  \A s \in SetIndexes :
    /\ \A i \in DOMAIN cache[s + 1] : cache[s + 1][i].valid => cache'[s + 1][i].valid
    /\ Cardinality(ValidBlocks(cache'[s + 1])) >= Cardinality(ValidBlocks(cache[s + 1]))

C19_ValidPrefix ==
  \A s \in SetIndexes :
    \E k \in 0 .. associativity : ValidBlocks(cache[s + 1]) = 1 .. k

\* C19: a valid block never becomes invalid again; the number of valid
\* blocks of a set never decreases and never exceeds the associativity; in
\* every reachable state the valid blocks of a set are its first k slots.
C19_ValidityMonotone == [][C19_ValidityStep]_vars /\ []C19_ValidPrefix

\* A set of more than one block that is partly filled, after a hit.
C19_Witness ==
  \E s \in SetIndexes :
    /\ pc = "constructed"
    /\ associativity >= 2
    /\ ValidBlocks(cache[s + 1]) = 1 .. (associativity - 1)
    /\ trace # <<>>
    /\ trace[Len(trace)].index = s
    /\ trace[Len(trace)].result = "hit"
\* --------------------------------------------------------------------- C20
\* The cache that the constructor builds for the configuration of the run.
NewCache ==
  [cache |-> [j \in 1 .. sets |->
                [i \in 1 .. associativity |-> Block(Zeros(no_of_tag_bits), FALSE)]],
   hit_count |-> 0,
   miss_count |-> 0]

\* check(address) on the cache st, as a function.
CheckAlone(st, address) ==
  LET index == extract_index(address)
      tag == extract_tag(address)
      offset == extract_offset(address)
      found == Matching(st.cache[index + 1], tag)
  IN  IF found # {}
        THEN [cache |-> lru_handling(st.cache, index, TRUE,
                                     st.cache[index + 1][Min(found)].lru_counter),
              hit_count |-> st.hit_count + 1,
              miss_count |-> st.miss_count]
        ELSE [cache |-> lru_handling(evictor(st.cache, index, tag, offset),
                                     index, FALSE, "None"),
              hit_count |-> st.hit_count,
              miss_count |-> st.miss_count + 1]

\* The first n lines of the trace replayed alone on a new cache.
RECURSIVE ReplayAlone(_, _)
ReplayAlone(tr, n) ==
  IF n = 0 THEN NewCache ELSE CheckAlone(ReplayAlone(tr, n - 1), tr[n].address)

\* C20: in the loops of parts A to D every run works on a cache constructed
\* for it, so the counts a run reports are those of replaying its trace
\* alone on a new cache, whatever runs were executed before it.
C20_SweepIsolation ==
  pc = "reported" =>
    /\ hit_count = ReplayAlone(trace, Len(trace)).hit_count
    /\ miss_count = ReplayAlone(trace, Len(trace)).miss_count
    /\ \A s \in SetIndexes : \A i \in 1 .. associativity :
         cache[s + 1][i] = ReplayAlone(trace, Len(trace)).cache[s + 1][i]

\* The second run of a sweep reports hits and misses.
C20_Witness ==
  /\ pc = "reported"
  /\ runs = 2
  /\ hit_count >= 1
  /\ miss_count >= 1

====
